---- MODULE Spec2Model ----
(***************************************************************************)
(* Model of PayrollSystem (src/main.py): the employee directory, the       *)
(* attendance ledger, their JSON files, and the operations add_employee,   *)
(* get_employee, record_attendance and calculate_salary.                   *)
(*                                                                         *)
(* A Python dict is a TLA+ record whose DOMAIN is the set of keys present, *)
(* so d.get(k, default) and d[k] (KeyError when k is absent) are told      *)
(* apart.  Only the keys the payroll arithmetic reads are kept in a dict.  *)
(* A Python str that the code inspects (a date) is a sequence of           *)
(* one-character strings, so startswith is a comparison of prefixes.       *)
(* Amounts that come out of the true division by 30 are exact rationals    *)
(* [num, den] in lowest terms; the rounding of binary floating point is    *)
(* not modelled.                                                           *)
(***************************************************************************)
EXTENDS Integers, Sequences, FiniteSets, TLC

VARIABLES employees, attendance, employees_file, attendance_file, call, ret

vars == <<employees, attendance, employees_file, attendance_file, call, ret>>

data == <<employees, attendance, employees_file, attendance_file>>

(***************************************************************************)
(* Bounds of the model.                                                    *)
(***************************************************************************)
MaxEmployees == 2

MaxRecords == 2

MaxDays == 32

MaxRows == 2

(***************************************************************************)
(* Inputs.                                                                 *)
(***************************************************************************)
EmployeeIds == {"E1", "E2"}

BasicSalaryInputs == {30000}

CalcBasicSalaryInputs == {0, 1, 30000}

OvertimeRateInputs == {100}

OvertimeHoursInputs == {2}

Months == {3, 4}

Years == {2024}

Date_2024_03_15 == <<"2", "0", "2", "4", "-", "0", "3", "-", "1", "5">>

Date_2024_04_01 == <<"2", "0", "2", "4", "-", "0", "4", "-", "0", "1">>

Date_2024_03_5 == <<"2", "0", "2", "4", "-", "0", "3", "-", "5">>

Date_15_03_2024 == <<"1", "5", "-", "0", "3", "-", "2", "0", "2", "4">>

DateInputs == {Date_2024_03_15, Date_2024_04_01, Date_2024_03_5, Date_15_03_2024}

\* employee_data dicts: overtime_applicable and overtime_rate are optional keys.
EmployeeDicts(salaries) ==
    LET core == [employee_id : EmployeeIds, basic_salary : salaries]
    IN  core
        \cup [employee_id : EmployeeIds, basic_salary : salaries,
              overtime_applicable : BOOLEAN]
        \cup [employee_id : EmployeeIds, basic_salary : salaries,
              overtime_rate : OvertimeRateInputs]
        \cup [employee_id : EmployeeIds, basic_salary : salaries,
              overtime_applicable : BOOLEAN, overtime_rate : OvertimeRateInputs]

EmployeeInputs == EmployeeDicts(BasicSalaryInputs)

\* attendance_data dicts: overtime_hours is an optional key.
AttendanceInputs ==
    [employee_id : EmployeeIds, date : DateInputs]
    \cup [employee_id : EmployeeIds, date : DateInputs,
          overtime_hours : OvertimeHoursInputs]

(***************************************************************************)
(* Python built-ins the code uses.                                         *)
(***************************************************************************)
dict_get(d, k, default) == IF k \in DOMAIN d THEN d[k] ELSE default

startswith(s, prefix) ==
    /\ Len(prefix) <= Len(s)
    /\ SubSeq(s, 1, Len(prefix)) = prefix

DigitChars == <<"0", "1", "2", "3", "4", "5", "6", "7", "8", "9">>

IsDigit(c) == \E k \in 1..Len(DigitChars) : DigitChars[k] = c

\* "YYYY-MM-DD": ten characters, digits around two hyphens
IsCanonicalDate(s) ==
    /\ Len(s) = 10
    /\ s[5] = "-"
    /\ s[8] = "-"
    /\ \A k \in {1, 2, 3, 4, 6, 7, 9, 10} : IsDigit(s[k])

RECURSIVE format_int(_)
\* f"{n}" of an int
format_int(n) ==
    IF n < 0 THEN <<"-">> \o format_int(-n)
    ELSE IF n < 10 THEN <<DigitChars[n + 1]>>
    ELSE format_int(n \div 10) \o <<DigitChars[(n % 10) + 1]>>

\* Mutant: the month is written without padding.
format_02d_unpadded(n) == format_int(n)

\* f"{n:02d}" of an int
format_02d(n) ==
    LET s == format_int(n) IN IF Len(s) < 2 THEN <<"0">> \o s ELSE s

RECURSIVE GCD(_, _)
GCD(a, b) == IF b = 0 THEN a ELSE GCD(b, a % b)

Abs(n) == IF n < 0 THEN -n ELSE n

\* the exact quotient n / d, d > 0, in lowest terms
Rat(n, d) ==
    LET g == GCD(Abs(n), d) IN [num |-> n \div g, den |-> d \div g]

RatMul(q, k) == Rat(q.num * k, q.den)

RatAdd(q, k) == Rat(q.num + k * q.den, q.den)

RatPlus(q, r) == Rat(q.num * r.den + r.num * q.den, q.den * r.den)

RECURSIVE sum(_)
sum(s) == IF s = <<>> THEN 0 ELSE Head(s) + sum(Tail(s))

(***************************************************************************)
(* PayrollSystem                                                           *)
(***************************************************************************)
None == [kind |-> "None"]

\* Mutant: the entry added last wins (the loop does not stop at the first hit).
get_employee_last(emps, employee_id) ==
    LET hits == {i \in 1..Len(emps) : emps[i].employee_id = employee_id}
    IN  IF hits = {} THEN None
        ELSE [kind |-> "employee",
              employee |-> emps[CHOOSE i \in hits : \A j \in hits : i >= j]]

\* Mutant: an id that matches no entry falls back to the first entry.
get_employee_fallback(emps, employee_id) ==
    LET hits == {i \in 1..Len(emps) : emps[i].employee_id = employee_id}
    IN  IF emps = <<>> THEN None
        ELSE IF hits = {} THEN [kind |-> "employee", employee |-> emps[1]]
        ELSE [kind |-> "employee",
              employee |-> emps[CHOOSE i \in hits : \A j \in hits : i <= j]]

get_employee(emps, employee_id) ==
    LET hits == {i \in 1..Len(emps) : emps[i].employee_id = employee_id}
    IN  IF hits = {} THEN None
        ELSE [kind |-> "employee",
              employee |-> emps[CHOOSE i \in hits : \A j \in hits : i <= j]]

period_prefix(year, month) == format_int(year) \o <<"-">> \o format_02d(month)

\* Mutant: one working day per distinct date (a later record of a date
\* already seen is dropped).
monthly_records_dedup(records, employee_id, month, year) ==
    LET picked(i) ==
            /\ records[i].employee_id = employee_id
            /\ startswith(records[i].date, period_prefix(year, month))
        first(i) ==
            /\ picked(i)
            /\ \A j \in 1..(i - 1) :
                   picked(j) => records[j].date # records[i].date
        F[n \in 0..Len(records)] ==
            IF n = 0 THEN <<>>
            ELSE IF first(n) THEN Append(F[n - 1], records[n]) ELSE F[n - 1]
    IN  F[Len(records)]

\* Mutant: the date is validated as "YYYY-MM-DD" before the period is compared.
monthly_records_validated(records, employee_id, month, year) ==
    SelectSeq(records,
              LAMBDA record :
                  /\ record.employee_id = employee_id
                  /\ IsCanonicalDate(record.date)
                  /\ startswith(record.date, period_prefix(year, month)))

monthly_records(records, employee_id, month, year) ==
    SelectSeq(records,
              LAMBDA record :
                  /\ record.employee_id = employee_id
                  /\ startswith(record.date, period_prefix(year, month)))

\* Mutant: the days of a 31-day month as divisor.
daily_rate_calendar(employee) == Rat(employee.basic_salary, 31)

daily_rate(employee) == Rat(employee.basic_salary, 30)

\* Mutant: overtime is paid to whoever has a rate.
overtime_applies_by_rate(employee) == "overtime_rate" \in DOMAIN employee

overtime_applies(employee) == dict_get(employee, "overtime_applicable", FALSE)

total_overtime_hours(monthly) ==
    sum([i \in 1..Len(monthly) |-> dict_get(monthly[i], "overtime_hours", 0)])

\* Mutant: the overtime pay is left out of the gross.
gross_salary_basic_only(basic_salary, overtime_pay) == basic_salary

gross_salary(basic_salary, overtime_pay) == RatAdd(basic_salary, overtime_pay)

net_salary(gross) == gross

calculate_salary(emps, records, employee_id, month, year) ==
    LET found == get_employee(emps, employee_id) IN
    IF found.kind = "None" THEN None
    ELSE
        LET employee == found.employee
            monthly == monthly_records(records, employee_id, month, year)
            working_days == Len(monthly)
            basic_salary == RatMul(daily_rate(employee), working_days)
            applies == overtime_applies(employee)
            hours == IF applies THEN total_overtime_hours(monthly) ELSE 0
        IN  IF applies /\ "overtime_rate" \notin DOMAIN employee
            THEN [kind |-> "KeyError", key |-> "overtime_rate"]
            ELSE
                LET overtime_pay ==
                        IF applies THEN hours * employee.overtime_rate ELSE 0
                    gross == gross_salary(basic_salary, overtime_pay)
                IN  [kind |-> "result",
                     employee |-> employee,
                     working_days |-> working_days,
                     total_overtime_hours |-> hours,
                     basic_salary |-> basic_salary,
                     overtime_pay |-> overtime_pay,
                     gross_salary |-> gross,
                     net_salary |-> net_salary(gross),
                     month |-> month,
                     year |-> year]

Init ==
    /\ employees = <<>>
    /\ attendance = <<>>
    /\ employees_file = <<>>
    /\ attendance_file = <<>>
    /\ call = [op |-> "__init__"]
    /\ ret = None

AddEmployee(employee_data) ==
    /\ Len(employees) < MaxEmployees
    /\ employees' = Append(employees, employee_data)
    /\ employees_file' = employees'
    /\ call' = [op |-> "add_employee"]
    /\ ret' = None
    /\ UNCHANGED <<attendance, attendance_file>>

\* Mutant: the newest record is put at the head of the ledger.
RecordAttendance_front(attendance_data) ==
    /\ Len(attendance) < MaxRecords
    /\ attendance' = <<attendance_data>> \o attendance
    /\ attendance_file' = attendance'
    /\ call' = [op |-> "record_attendance"]
    /\ ret' = None
    /\ UNCHANGED <<employees, employees_file>>

RecordAttendance(attendance_data) ==
    /\ Len(attendance) < MaxRecords
    /\ attendance' = Append(attendance, attendance_data)
    /\ attendance_file' = attendance'
    /\ call' = [op |-> "record_attendance"]
    /\ ret' = None
    /\ UNCHANGED <<employees, employees_file>>

GetEmployee(employee_id) ==
    /\ call' = [op |-> "get_employee", employee_id |-> employee_id]
    /\ ret' = get_employee(employees, employee_id)
    /\ UNCHANGED data

\* Mutant: the monthly selection is stored back into the ledger.
CalculateSalary_storing(employee_id, month, year) ==
    /\ call' = [op |-> "calculate_salary", employee_id |-> employee_id,
                month |-> month, year |-> year]
    /\ ret' = calculate_salary(employees, attendance, employee_id, month, year)
    /\ attendance' = monthly_records(attendance, employee_id, month, year)
    /\ UNCHANGED <<employees, employees_file, attendance_file>>

CalculateSalary(employee_id, month, year) ==
    /\ call' = [op |-> "calculate_salary", employee_id |-> employee_id,
                month |-> month, year |-> year]
    /\ ret' = calculate_salary(employees, attendance, employee_id, month, year)
    /\ UNCHANGED data

Next ==
    \/ \E employee_data \in EmployeeInputs : AddEmployee(employee_data)
    \/ \E attendance_data \in AttendanceInputs : RecordAttendance(attendance_data)
    \/ \E employee_id \in EmployeeIds : GetEmployee(employee_id)
    \/ \E employee_id \in EmployeeIds, month \in Months, year \in Years :
           CalculateSalary(employee_id, month, year)

Spec == Init /\ [][Next]_vars

(***************************************************************************)
(* calculate_salary as a pure function of a directory and a ledger: the    *)
(* directory holds one employee and the ledger up to MaxDays records, so   *)
(* that a month of more than 30 working days is among the inputs.          *)
(***************************************************************************)
CalcEmployeeInputs == EmployeeDicts(CalcBasicSalaryInputs)

InitCalc ==
    /\ \E employee_data \in CalcEmployeeInputs : employees = <<employee_data>>
    /\ \E n \in 0..MaxDays, attendance_data \in AttendanceInputs :
           attendance = [i \in 1..n |-> attendance_data]
    /\ employees_file = employees
    /\ attendance_file = attendance
    /\ call = [op |-> "__init__"]
    /\ ret = None

NextCalc ==
    \E employee_id \in EmployeeIds, month \in Months, year \in Years :
        CalculateSalary(employee_id, month, year)

SpecCalc == InitCalc /\ [][NextCalc]_vars

(***************************************************************************)
(* calculate_salary over years of one to five digits and months of one and *)
(* two digits: the directory holds one employee, the ledger up to          *)
(* MaxRecords records whose dates are written with and without padding.    *)
(***************************************************************************)
PeriodYears == {5, 999, 2024, 12345}

PeriodMonths == {3, 11}

Date_2024_11_02 == <<"2", "0", "2", "4", "-", "1", "1", "-", "0", "2">>

Date_2024_3_15 == <<"2", "0", "2", "4", "-", "3", "-", "1", "5">>

Date_999_03_15 == <<"9", "9", "9", "-", "0", "3", "-", "1", "5">>

Date_0999_03_15 == <<"0", "9", "9", "9", "-", "0", "3", "-", "1", "5">>

PeriodDateInputs ==
    {Date_2024_03_15, Date_2024_11_02, Date_2024_3_15, Date_999_03_15,
     Date_0999_03_15}

PeriodAttendanceInputs == [employee_id : EmployeeIds, date : PeriodDateInputs]

InitPeriod ==
    /\ \E employee_data \in EmployeeInputs : employees = <<employee_data>>
    /\ \E n \in 0..MaxRecords :
           \E ledger \in [1..n -> PeriodAttendanceInputs] : attendance = ledger
    /\ employees_file = employees
    /\ attendance_file = attendance
    /\ call = [op |-> "__init__"]
    /\ ret = None

NextPeriod ==
    \E employee_id \in EmployeeIds, month \in PeriodMonths, year \in PeriodYears :
        CalculateSalary(employee_id, month, year)

SpecPeriod == InitPeriod /\ [][NextPeriod]_vars

(***************************************************************************)
(* The handlers of the Streamlit pages that fill the directory and the     *)
(* ledger and that show the dashboard.  Every entry these handlers add has *)
(* status "active" (the edit form is not modelled), so the dashboard's     *)
(* filter on status keeps every entry.  str, float and bool of an upload   *)
(* cell keep the value of the strings, numbers and booleans used here.     *)
(***************************************************************************)
FormSalaryInputs == {0, 30000}

FormRateInputs == {0, 100}

FormDateInputs == {Date_2024_03_15, Date_2024_04_01}

FormHoursInputs == {0, 2}

UploadSalaryInputs == {-30000, 30000}

UploadHoursInputs == {-2, 2}

\* the rows of one file have the same columns
EmployeeRowsCore == [employee_id : EmployeeIds, basic_salary : UploadSalaryInputs]

EmployeeRowsFull ==
    [employee_id : EmployeeIds, basic_salary : BasicSalaryInputs,
     overtime_applicable : BOOLEAN, overtime_rate : OvertimeRateInputs]

EmployeeFiles ==
    UNION {[1..n -> EmployeeRowsCore] \cup [1..n -> EmployeeRowsFull] :
               n \in 1..MaxRows}

AttendanceRowsCore == [employee_id : EmployeeIds, date : {Date_2024_03_15}]

AttendanceRowsFull ==
    [employee_id : EmployeeIds, date : {Date_2024_03_15},
     overtime_hours : UploadHoursInputs]

AttendanceFiles ==
    UNION {[1..n -> AttendanceRowsCore] \cup [1..n -> AttendanceRowsFull] :
               n \in 1..MaxRows}

st_error == [kind |-> "st.error"]

employee_from_form(employee_id, basic_salary, overtime_applicable, rate_input) ==
    [employee_id |-> employee_id,
     basic_salary |-> basic_salary,
     overtime_applicable |-> overtime_applicable,
     overtime_rate |-> IF overtime_applicable THEN rate_input ELSE 0]

employee_from_row(row) ==
    [employee_id |-> row.employee_id,
     basic_salary |-> row.basic_salary,
     overtime_applicable |-> dict_get(row, "overtime_applicable", FALSE),
     overtime_rate |-> dict_get(row, "overtime_rate", 0)]

attendance_from_row(row) ==
    [employee_id |-> row.employee_id,
     date |-> row.date,
     overtime_hours |-> dict_get(row, "overtime_hours", 0)]

\* "Add Employee": a basic salary of 0 fails the required-fields test
SubmitAddEmployee(employee_id, basic_salary, overtime_applicable, rate_input) ==
    /\ Len(employees) < MaxEmployees
    /\ call' = [op |-> "submit_add_employee"]
    /\ IF basic_salary = 0
       THEN /\ ret' = st_error
            /\ UNCHANGED data
       ELSE /\ employees' = Append(employees,
                                   employee_from_form(employee_id, basic_salary,
                                                      overtime_applicable, rate_input))
            /\ employees_file' = employees'
            /\ ret' = None
            /\ UNCHANGED <<attendance, attendance_file>>

\* "Process Employee Upload": one add_employee per row
ProcessEmployeeUpload(rows) ==
    /\ Len(employees) + Len(rows) <= MaxEmployees
    /\ employees' = employees \o [i \in 1..Len(rows) |-> employee_from_row(rows[i])]
    /\ employees_file' = employees'
    /\ call' = [op |-> "process_employee_upload"]
    /\ ret' = None
    /\ UNCHANGED <<attendance, attendance_file>>

\* "Record Attendance": the employee is picked among the directory entries;
\* with no entry to pick the form is rejected
SubmitAttendance(date, hours_input) ==
    /\ Len(attendance) < MaxRecords
    /\ call' = [op |-> "submit_attendance"]
    /\ \/ /\ employees = <<>>
          /\ ret' = st_error
          /\ UNCHANGED data
       \/ \E k \in 1..Len(employees) :
              LET employee_id == employees[k].employee_id
                  employee == get_employee(employees, employee_id).employee
                  overtime_hours ==
                      IF dict_get(employee, "overtime_applicable", FALSE)
                      THEN hours_input ELSE 0
              IN  /\ attendance' = Append(attendance,
                                          [employee_id |-> employee_id,
                                           date |-> date,
                                           overtime_hours |-> overtime_hours])
                  /\ attendance_file' = attendance'
                  /\ ret' = None
                  /\ UNCHANGED <<employees, employees_file>>

\* "Process Upload" of attendance: one record_attendance per row, the
\* employee_id of a row is not looked up
ProcessAttendanceUpload(rows) ==
    /\ Len(attendance) + Len(rows) <= MaxRecords
    /\ attendance' = attendance \o [i \in 1..Len(rows) |-> attendance_from_row(rows[i])]
    /\ attendance_file' = attendance'
    /\ call' = [op |-> "process_attendance_upload"]
    /\ ret' = None
    /\ UNCHANGED <<employees, employees_file>>

RECURSIVE total_payroll(_, _, _, _, _)
\* the net salaries of the first n entries for the current month; an entry
\* whose calculate_salary raises makes the whole sum raise
total_payroll(emps, records, month, year, n) ==
    IF n = 0 THEN [kind |-> "sum", value |-> Rat(0, 1)]
    ELSE LET rest == total_payroll(emps, records, month, year, n - 1)
             salary_data == calculate_salary(emps, records, emps[n].employee_id,
                                             month, year)
         IN  IF rest.kind # "sum" THEN rest
             ELSE IF salary_data.kind = "KeyError" THEN salary_data
             ELSE IF salary_data.kind = "None" THEN rest
             ELSE [kind |-> "sum",
                   value |-> RatPlus(rest.value, salary_data.net_salary)]

display_dashboard(emps, records, current_month, current_year) ==
    LET total_employees == Len(emps)
        payroll == total_payroll(emps, records, current_month, current_year,
                                 Len(emps))
    IN  IF payroll.kind # "sum" THEN payroll
        ELSE IF records # <<>> /\ total_employees = 0
        THEN [kind |-> "ZeroDivisionError"]
        ELSE [kind |-> "dashboard",
              total_employees |-> total_employees,
              active_employees |-> total_employees,
              total_payroll |-> payroll.value,
              avg_attendance |->
                  IF records # <<>> THEN Rat(Len(records), total_employees)
                  ELSE Rat(0, 1)]

DisplayDashboard(current_month, current_year) ==
    /\ call' = [op |-> "display_dashboard", month |-> current_month,
                year |-> current_year]
    /\ ret' = display_dashboard(employees, attendance, current_month, current_year)
    /\ UNCHANGED data

NextUI ==
    \/ \E employee_id \in EmployeeIds, basic_salary \in FormSalaryInputs,
          overtime_applicable \in BOOLEAN, rate_input \in FormRateInputs :
           SubmitAddEmployee(employee_id, basic_salary, overtime_applicable,
                             rate_input)
    \/ \E rows \in EmployeeFiles : ProcessEmployeeUpload(rows)
    \/ \E date \in FormDateInputs, hours_input \in FormHoursInputs :
           SubmitAttendance(date, hours_input)
    \/ \E rows \in AttendanceFiles : ProcessAttendanceUpload(rows)
    \/ \E month \in Months, year \in Years : DisplayDashboard(month, year)
    \/ \E employee_id \in EmployeeIds, month \in Months, year \in Years :
           CalculateSalary(employee_id, month, year)

SpecUI == Init /\ [][NextUI]_vars

(***************************************************************************)
(* Vocabulary of the properties.                                           *)
(***************************************************************************)
IsCalc == call.op = "calculate_salary"

Returned == IsCalc /\ ret.kind = "result"

Existing(employee_id) ==
    \E i \in 1..Len(employees) : employees[i].employee_id = employee_id

\* the directory entry the call resolves to
EmployeeOfCall == get_employee(employees, call.employee_id).employee

OvertimeFlag == dict_get(EmployeeOfCall, "overtime_applicable", FALSE)

RequestedPrefix == period_prefix(call.year, call.month)

\* positions of the ledger records of the requested employee and period
MatchingIndices ==
    {i \in 1..Len(attendance) :
        /\ attendance[i].employee_id = call.employee_id
        /\ startswith(attendance[i].date, RequestedPrefix)}

RECURSIVE HoursUpTo(_)
\* overtime hours of the matching records at positions 1..n, absent as 0
HoursUpTo(n) ==
    IF n = 0 THEN 0
    ELSE HoursUpTo(n - 1)
         + (IF n \in MatchingIndices
            THEN dict_get(attendance[n], "overtime_hours", 0) ELSE 0)

ExpectedHours == HoursUpTo(Len(attendance))

Zero == [num |-> 0, den |-> 1]

\* positions of the matching records whose date is "YYYY-MM-DD"
CanonicalMatching ==
    {i \in MatchingIndices : IsCanonicalDate(attendance[i].date)}

\* positions of the records of the requested employee whose date is not
\* "YYYY-MM-DD"
NonCanonical ==
    {i \in 1..Len(attendance) :
        /\ attendance[i].employee_id = call.employee_id
        /\ ~IsCanonicalDate(attendance[i].date)}

C2_ProRataExceeds ==
    Returned =>
        /\ ret.basic_salary.num * 30
               = EmployeeOfCall.basic_salary * ret.working_days * ret.basic_salary.den
        /\ ret.working_days > 30 =>
               ret.basic_salary.num > EmployeeOfCall.basic_salary * ret.basic_salary.den

(***************************************************************************)
(* C2, amended: the basic_salary of a result is basic_salary / 30 times    *)
(* working_days, with divisor 30 in every month and no cap; it exceeds the *)
(* monthly basic_salary whenever working_days > 30 and basic_salary > 0,   *)
(* and is 0 whatever working_days is when basic_salary = 0.                *)
(***************************************************************************)
C2_ProRata ==
    Returned =>
        /\ ret.basic_salary.num * 30
               = EmployeeOfCall.basic_salary * ret.working_days * ret.basic_salary.den
        /\ (ret.working_days > 30 /\ EmployeeOfCall.basic_salary > 0) =>
               ret.basic_salary.num > EmployeeOfCall.basic_salary * ret.basic_salary.den
        /\ EmployeeOfCall.basic_salary = 0 => ret.basic_salary = Zero

\* more than 30 working days, paid above the monthly basic salary
C2_Witness ==
    /\ Returned
    /\ ret.working_days > 30
    /\ EmployeeOfCall.basic_salary > 0
    /\ ret.basic_salary.num > EmployeeOfCall.basic_salary * ret.basic_salary.den

(***************************************************************************)
(* C3: for an employee whose overtime_applicable is false or absent, the   *)
(* call returns a result with overtime_pay = 0 and total_overtime_hours =  *)
(* 0, whatever the overtime_hours of the records and the overtime_rate.    *)
(***************************************************************************)
C3_NoOvertimeWhenNotApplicable ==
    (IsCalc /\ Existing(call.employee_id) /\ ~OvertimeFlag) =>
        /\ ret.kind = "result"
        /\ ret.overtime_pay = 0
        /\ ret.total_overtime_hours = 0

\* a rate is set and a selected record carries overtime hours
C3_Witness ==
    /\ IsCalc
    /\ Existing(call.employee_id)
    /\ ~OvertimeFlag
    /\ "overtime_rate" \in DOMAIN EmployeeOfCall
    /\ ExpectedHours > 0

(***************************************************************************)
(* C4: for an employee whose overtime_applicable is true, the call returns *)
(* total_overtime_hours = the sum of overtime_hours over the selected      *)
(* records (absent as 0) and overtime_pay = total_overtime_hours times the *)
(* employee's overtime_rate (absent as 0).                                 *)
(***************************************************************************)
C4_OvertimeSum ==
    (IsCalc /\ Existing(call.employee_id) /\ OvertimeFlag) =>
        /\ ret.kind = "result"
        /\ ret.total_overtime_hours = ExpectedHours
        /\ ret.overtime_pay
               = ExpectedHours * dict_get(EmployeeOfCall, "overtime_rate", 0)

(***************************************************************************)
(* C5: in every result, net_salary = gross_salary = basic_salary +         *)
(* overtime_pay.                                                           *)
(***************************************************************************)
C5_NetIsGrossIsSum ==
    Returned =>
        /\ ret.net_salary = ret.gross_salary
        /\ ret.gross_salary.num * ret.basic_salary.den
               = (ret.basic_salary.num + ret.overtime_pay * ret.basic_salary.den)
                 * ret.gross_salary.den

\* both parts of the sum are positive
C5_Witness ==
    /\ Returned
    /\ ret.working_days > 0
    /\ ret.overtime_pay > 0

(***************************************************************************)
(* C6: a call with an employee_id that matches no directory entry returns  *)
(* None, whatever the month, the year and the ledger.                      *)
(***************************************************************************)
C6_NotFound ==
    (IsCalc /\ ~Existing(call.employee_id)) => ret = None

\* the directory is not empty and the ledger holds records of the unknown id
C6_Witness ==
    /\ IsCalc
    /\ ~Existing(call.employee_id)
    /\ employees # <<>>
    /\ MatchingIndices # {}

(***************************************************************************)
(* C7: a call for an existing employee never fails on a missing optional   *)
(* field: it returns a result, and a missing overtime_rate counts as 0.    *)
(***************************************************************************)
C7_MissingOptionalDefaults ==
    (IsCalc /\ Existing(call.employee_id)) =>
        /\ ret.kind = "result"
        /\ "overtime_rate" \notin DOMAIN EmployeeOfCall => ret.overtime_pay = 0

(***************************************************************************)
(* C8, as claimed: a record whose date is not in the form "YYYY-MM-DD"     *)
(* adds nothing to working_days and causes no error.                       *)
(***************************************************************************)
C8_NonCanonicalExcluded ==
    /\ IsCalc /\ ret.kind = "KeyError" =>
           (OvertimeFlag /\ "overtime_rate" \notin DOMAIN EmployeeOfCall)
    /\ Returned => ret.working_days = Cardinality(CanonicalMatching)

(***************************************************************************)
(* C8, amended: a record whose date does not start with the requested      *)
(* "YYYY-MM" prefix adds nothing to working_days, in "YYYY-MM-DD" form or  *)
(* not, and a record whose date is not in that form but starts with the    *)
(* prefix adds one; no date causes an error (the only failure of a call is *)
(* the missing overtime_rate).                                             *)
(***************************************************************************)
C8_PrefixDecides ==
    /\ IsCalc /\ ret.kind = "KeyError" =>
           (OvertimeFlag /\ "overtime_rate" \notin DOMAIN EmployeeOfCall)
    /\ Returned =>
           ret.working_days - Cardinality(CanonicalMatching)
               = Cardinality({i \in NonCanonical :
                                 startswith(attendance[i].date, RequestedPrefix)})

\* one date out of form that starts with the prefix, one that does not
C8_Witness ==
    /\ Returned
    /\ \E i \in NonCanonical : startswith(attendance[i].date, RequestedPrefix)
    /\ \E i \in NonCanonical : ~startswith(attendance[i].date, RequestedPrefix)
    /\ ret.working_days = 1

(***************************************************************************)
(* C9: for an existing employee with no record matching the period, the    *)
(* call raises nothing and returns a result whose working_days,            *)
(* total_overtime_hours, basic_salary, overtime_pay, gross_salary and      *)
(* net_salary are all 0.                                                   *)
(***************************************************************************)
C9_ZeroAttendance ==
    (IsCalc /\ Existing(call.employee_id) /\ MatchingIndices = {}) =>
        /\ ret.kind = "result"
        /\ ret.working_days = 0
        /\ ret.total_overtime_hours = 0
        /\ ret.basic_salary = Zero
        /\ ret.overtime_pay = 0
        /\ ret.gross_salary = Zero
        /\ ret.net_salary = Zero

(***************************************************************************)
(* C10: a step of calculate_salary, returning a result, None or failing,   *)
(* leaves the directory, the ledger and both files as they were.           *)
(***************************************************************************)
C10_NoSideEffects ==
    [][call'.op = "calculate_salary" => UNCHANGED data]_vars

\* a call over a directory and a ledger that both hold entries
C10_Witness ==
    /\ IsCalc
    /\ employees # <<>>
    /\ attendance # <<>>
    /\ MatchingIndices # {}
    /\ employees_file = employees
    /\ attendance_file = attendance

IsPrefix(s, t) == Len(s) <= Len(t) /\ SubSeq(t, 1, Len(s)) = s

\* position of the earliest-added entry with this id
FirstIndex(employee_id) ==
    CHOOSE i \in 1..Len(employees) :
        /\ employees[i].employee_id = employee_id
        /\ \A j \in 1..(i - 1) : employees[j].employee_id # employee_id

(***************************************************************************)
(* C11: no two entries of the employee directory carry the same            *)
(* employee_id, after any sequence of single and bulk-upload adds.         *)
(***************************************************************************)
C11_UniqueEmployeeIds ==
    \A i, j \in 1..Len(employees) :
        i # j => employees[i].employee_id # employees[j].employee_id

(***************************************************************************)
(* C12: every step of add_employee, record_attendance, get_employee and    *)
(* calculate_salary keeps each entry of the directory and each record of   *)
(* the ledger unchanged at its position; both only grow at the end.        *)
(***************************************************************************)
C12_AppendOnly ==
    [][IsPrefix(employees, employees') /\ IsPrefix(attendance, attendance')]_vars

\* both collections have grown twice
C12_Witness ==
    /\ Len(employees) = 2
    /\ Len(attendance) = 2
    /\ attendance[1] # attendance[2]
    /\ employees[1] # employees[2]

(***************************************************************************)
(* C15: a step that records one attendance record r leaves every outcome   *)
(* of calculate_salary unchanged, except for r's employee and the period   *)
(* r's date starts with: there a result gains exactly 1 working day and,   *)
(* for an overtime-applicable employee, r's overtime_hours (absent as 0).  *)
(***************************************************************************)
C15_RecordAddsOneDay ==
    [][(call'.op = "record_attendance" /\ attendance' # attendance) =>
          LET r == attendance'[Len(attendance')] IN
          \A employee_id \in EmployeeIds, month \in Months, year \in Years :
              LET before == calculate_salary(employees, attendance,
                                             employee_id, month, year)
                  after == calculate_salary(employees', attendance',
                                            employee_id, month, year)
              IN  IF /\ before.kind = "result"
                     /\ r.employee_id = employee_id
                     /\ startswith(r.date, period_prefix(year, month))
                  THEN /\ after.kind = "result"
                       /\ after.working_days = before.working_days + 1
                       /\ after.total_overtime_hours
                              = before.total_overtime_hours
                                + (IF dict_get(before.employee,
                                               "overtime_applicable", FALSE)
                                   THEN dict_get(r, "overtime_hours", 0)
                                   ELSE 0)
                  ELSE after = before]_vars

\* a second record with overtime hours has just been recorded for an
\* overtime-applicable employee who has a rate
C15_Witness ==
    /\ call.op = "record_attendance"
    /\ Len(attendance) = 2
    /\ attendance[1] = attendance[2]
    /\ "overtime_hours" \in DOMAIN attendance[2]
    /\ \E month \in Months, year \in Years :
           LET res == calculate_salary(employees, attendance,
                                       attendance[2].employee_id, month, year)
           IN  /\ res.kind = "result"
               /\ res.working_days = 2
               /\ res.total_overtime_hours > 0

(***************************************************************************)
(* C16: get_employee returns the earliest-added entry with the id, and     *)
(* calculate_salary takes basic_salary, overtime_applicable and            *)
(* overtime_rate from that entry; later entries with the id are not used.  *)
(***************************************************************************)
C16_FirstAddedEntry ==
    /\ (call.op = "get_employee" /\ Existing(call.employee_id)) =>
           ret = [kind |-> "employee",
                  employee |-> employees[FirstIndex(call.employee_id)]]
    /\ (IsCalc /\ Existing(call.employee_id)) =>
           LET first == employees[FirstIndex(call.employee_id)]
               flag == dict_get(first, "overtime_applicable", FALSE)
           IN  /\ ret.kind = "KeyError" <=>
                      (flag /\ "overtime_rate" \notin DOMAIN first)
               /\ ret.kind = "result" =>
                      /\ ret.employee = first
                      /\ ret.basic_salary.num * 30
                             = first.basic_salary * ret.working_days
                               * ret.basic_salary.den
                      /\ ret.overtime_pay
                             = (IF flag THEN ExpectedHours * first.overtime_rate
                                ELSE 0)

\* two entries share the id; the later one alone would pay overtime
C16_Witness ==
    /\ Returned
    /\ Len(employees) = 2
    /\ employees[1].employee_id = call.employee_id
    /\ employees[2].employee_id = call.employee_id
    /\ ~dict_get(employees[1], "overtime_applicable", FALSE)
    /\ dict_get(employees[2], "overtime_applicable", FALSE)
    /\ "overtime_rate" \in DOMAIN employees[2]
    /\ ExpectedHours > 0

\* the decimal digits of n in exactly w characters (n < 10^w)
RECURSIVE FixedWidth(_, _)
FixedWidth(n, w) ==
    IF w = 0 THEN <<>>
    ELSE FixedWidth(n \div 10, w - 1) \o <<DigitChars[(n % 10) + 1]>>

\* positions of the records of the requested employee whose date has
\* exactly the characters of p as its first Len(p) characters
BeginsWith(p) ==
    {i \in 1..Len(attendance) :
        /\ attendance[i].employee_id = call.employee_id
        /\ Len(attendance[i].date) >= Len(p)
        /\ \A k \in 1..Len(p) : attendance[i].date[k] = p[k]}

(***************************************************************************)
(* C14, as claimed: for every year and every month in 1..12 the prefix of  *)
(* the period filter has exactly 7 characters, "YYYY-MM", and a record is  *)
(* selected only if its date begins with these 7 characters.               *)
(***************************************************************************)
C14_SevenCharacterPrefix ==
    (IsCalc /\ call.month \in 1..12) =>
        /\ Len(RequestedPrefix) = 7
        /\ Returned => ret.working_days = Cardinality(BeginsWith(RequestedPrefix))

(***************************************************************************)
(* C14, amended: for every year in 1000..9999 and every month in 1..12 the *)
(* prefix is the 7 characters "YYYY-MM" with the month zero-padded; the    *)
(* year is written without padding, so the prefix is shorter than 7        *)
(* characters for a year in 0..999 and longer for a year above 9999; in    *)
(* every case a record is selected only if its date begins with the        *)
(* prefix.                                                                 *)
(***************************************************************************)
C14_PrefixByYearWidth ==
    (IsCalc /\ call.month \in 1..12 /\ call.year >= 0) =>
        /\ call.year \in 1000..9999 =>
               /\ RequestedPrefix
                      = FixedWidth(call.year, 4) \o <<"-">> \o FixedWidth(call.month, 2)
               /\ Len(RequestedPrefix) = 7
        /\ call.year < 1000 => Len(RequestedPrefix) < 7
        /\ call.year > 9999 => Len(RequestedPrefix) > 7
        /\ SubSeq(RequestedPrefix, Len(RequestedPrefix) - 2, Len(RequestedPrefix))
               = <<"-">> \o FixedWidth(call.month, 2)
        /\ Returned => ret.working_days = Cardinality(BeginsWith(RequestedPrefix))

\* a four-digit year and a one-digit month: the record with the padded month
\* is selected, the one with the month unpadded is not
C14_Witness ==
    /\ Returned
    /\ call.year \in 1000..9999
    /\ call.month < 10
    /\ Len(attendance) = 2
    /\ attendance[1].employee_id = call.employee_id
    /\ attendance[2].employee_id = call.employee_id
    /\ attendance[1].date = Date_2024_03_15
    /\ attendance[2].date = Date_2024_3_15
    /\ ret.working_days = 1

(***************************************************************************)
(* C13: every result of calculate_salary has working_days,                 *)
(* total_overtime_hours, basic_salary, overtime_pay, gross_salary and      *)
(* net_salary >= 0, whatever the adds and the recordings before it.        *)
(***************************************************************************)
C13_NonNegativeResult ==
    Returned =>
        /\ ret.working_days >= 0
        /\ ret.total_overtime_hours >= 0
        /\ ret.basic_salary.num >= 0
        /\ ret.overtime_pay >= 0
        /\ ret.gross_salary.num >= 0
        /\ ret.net_salary.num >= 0

(***************************************************************************)
(* C17: whenever the attendance ledger is non-empty the employee directory *)
(* is non-empty, so the average attendance of the dashboard never divides  *)
(* by zero.                                                                *)
(***************************************************************************)
C17_NoDivisionByZero ==
    /\ attendance # <<>> => employees # <<>>
    /\ call.op = "display_dashboard" => ret.kind # "ZeroDivisionError"

====
